---- MODULE Spec2Model ----
(***************************************************************************)
(* Model of the ARZ archive index reader (src/src/reader.rs).             *)
(*                                                                         *)
(* Reader::new owns a seekable byte stream and decodes, in this order, the *)
(* 24-byte header, the string table and the record table.  The stream is   *)
(* modelled byte by byte; every integer is decoded from its little-endian  *)
(* bytes exactly as byteorder does.  The caller's input (the archive that  *)
(* was serialised into the stream) is kept beside the stream so that the   *)
(* decoded result can be compared with what was written.                   *)
(*                                                                         *)
(* A u64 is represented by its two 32-bit halves [lo, hi] (value =         *)
(* lo + 2^32 * hi): the program only stores file_time, it never computes   *)
(* with it.                                                                *)
(***************************************************************************)
EXTENDS Integers, Sequences, FiniteSets, TLC

VARIABLES
    archive,        \* the caller's input: what was serialised into the stream
    stream,         \* the bytes of the underlying reader R
    pos,            \* the stream position of R
    pc,             \* where Reader::new / parse_header currently is
    header,         \* `header` of parse_header (after read_header succeeded)
    strings_count,  \* `strings_count` of read_strings
    strings,        \* `strings` of read_strings, then the pool of read_entries
    entries,        \* `entries` of read_entries
    entry,          \* `entry` of the current iteration of read_entries
    indices,        \* the path indices read so far by this call
    trace,          \* the seeks and reads this call performed on R, in order
    stages,         \* the decode stages this call entered, in order
    result,         \* what Reader::new returned to the caller
    prev,           \* what the previous Reader::new on this stream returned
    parses,         \* number of Reader::new calls started
    twin            \* TRUE when the current call parses the size-patched twin

vars == <<archive, stream, pos, pc, header, strings_count, strings, entries,
          entry, indices, trace, stages, result, prev, parses, twin>>

-----------------------------------------------------------------------------
(* Bounds of the model *)

MaxStrings == 2
MaxRecords == 2
MaxCut == 4
MaxSizeField == 1
MaxParses == 2
MaxExtra == 3

(* Constants of the program *)

HEADER_SIZE == 24
MAGIC == 2
VERSION == 3
REPLACEMENT == 65533

-----------------------------------------------------------------------------
(* Little-endian integers (byteorder::LittleEndian) *)

RECURSIVE Pow256(_)
Pow256(k) == IF k = 0 THEN 1 ELSE 256 * Pow256(k - 1)

LE(n, w) == [i \in 1..w |-> (n \div Pow256(i - 1)) % 256]

RECURSIVE FromLE(_)
FromLE(bs) == IF bs = <<>> THEN 0 ELSE Head(bs) + 256 * FromLE(Tail(bs))

FromLE64(bs) == [lo |-> FromLE(SubSeq(bs, 1, 4)), hi |-> FromLE(SubSeq(bs, 5, 8))]

RECURSIVE Concat(_)
Concat(ss) == IF ss = <<>> THEN <<>> ELSE Head(ss) \o Concat(Tail(ss))

-----------------------------------------------------------------------------
(* String::from_utf8_lossy: a string is the sequence of its code points;   *)
(* every maximal invalid prefix is replaced by U+FFFD.                     *)

IsCont(b) == b \in 128..191

Utf8Second(b1, b2) ==
    CASE b1 = 224 -> b2 \in 160..191
      [] b1 \in 225..236 -> b2 \in 128..191
      [] b1 = 237 -> b2 \in 128..159
      [] b1 \in 238..239 -> b2 \in 128..191
      [] b1 = 240 -> b2 \in 144..191
      [] b1 \in 241..243 -> b2 \in 128..191
      [] b1 = 244 -> b2 \in 128..143
      [] OTHER -> FALSE

Utf8Step(bs) ==
    LET B(i) == IF i <= Len(bs) THEN bs[i] ELSE -1
        b1 == bs[1]
        Bad(n) == [ch |-> REPLACEMENT, n |-> n]
    IN  IF b1 < 128 THEN [ch |-> b1, n |-> 1]
        ELSE IF b1 \in 194..223 THEN
            IF IsCont(B(2)) THEN [ch |-> (b1 - 192) * 64 + (B(2) - 128), n |-> 2]
            ELSE Bad(1)
        ELSE IF b1 \in 224..239 THEN
            IF ~Utf8Second(b1, B(2)) THEN Bad(1)
            ELSE IF ~IsCont(B(3)) THEN Bad(2)
            ELSE [ch |-> (b1 - 224) * 4096 + (B(2) - 128) * 64 + (B(3) - 128), n |-> 3]
        ELSE IF b1 \in 240..244 THEN
            IF ~Utf8Second(b1, B(2)) THEN Bad(1)
            ELSE IF ~IsCont(B(3)) THEN Bad(2)
            ELSE IF ~IsCont(B(4)) THEN Bad(3)
            ELSE [ch |-> (b1 - 240) * 262144 + (B(2) - 128) * 4096
                          + (B(3) - 128) * 64 + (B(4) - 128), n |-> 4]
        ELSE Bad(1)

RECURSIVE from_utf8_lossy(_)
from_utf8_lossy(bs) ==
    IF bs = <<>> THEN <<>>
    ELSE LET r == Utf8Step(bs)
         IN  <<r.ch>> \o from_utf8_lossy(SubSeq(bs, r.n + 1, Len(bs)))

-----------------------------------------------------------------------------
(* The archives handed to Reader::new.  An archive is serialised in the    *)
(* layout read_header, read_strings and read_entries read back.            *)

EncHeader(a) ==
    LE(a.id, 2) \o LE(a.version, 2) \o LE(a.record_table_start, 4)
    \o LE(a.record_table_size, 4) \o LE(a.record_table_entry_count, 4)
    \o LE(a.string_table_start, 4) \o LE(a.string_table_size, 4)

EncString(s) == LE(Len(s), 4) \o s

EncStrings(strs) ==
    LE(Len(strs), 4) \o Concat([i \in 1..Len(strs) |-> EncString(strs[i])])

EncRecord(r) ==
    LE(r.path_index, 4) \o LE(Len(r.record_type), 4) \o r.record_type
    \o LE(r.offset, 4) \o LE(r.compressed_size, 4) \o LE(r.uncompressed_size, 4)
    \o LE(r.file_time.lo, 4) \o LE(r.file_time.hi, 4)

EncRecords(recs) == Concat([i \in 1..Len(recs) |-> EncRecord(recs[i])])

EncArchive(a) ==
    EncHeader(a) \o (IF a.layout = "SR" THEN EncStrings(a.strs) \o EncRecords(a.recs)
                     ELSE EncRecords(a.recs) \o EncStrings(a.strs))

\* The i-th pool string of a style: style 1 mixes ASCII, a two-byte
\* character, and invalid UTF-8; style 2 repeats one ASCII string.
PoolString(style, i) ==
    IF style = 2 THEN <<65>>
    ELSE CASE i = 1 -> <<104, 101, 108, 108, 111>>
           [] i = 2 -> <<195, 169, 255>>
           [] i = 3 -> <<226, 130>>
           [] OTHER -> <<104, 101, 108, 108, 111>>

Pool(style, n) == [i \in 1..n |-> PoolString(style, i)]

\* The k-th record of a table, with the given path index.
Record(k, idx) ==
    IF k % 2 = 1
    THEN [path_index |-> idx, record_type |-> <<84, 65, 71>>, offset |-> 10,
          compressed_size |-> 5, uncompressed_size |-> 8,
          file_time |-> [lo |-> 123456789, hi |-> 0]]
    ELSE [path_index |-> idx, record_type |-> <<>>, offset |-> 16909060,
          compressed_size |-> 256, uncompressed_size |-> 2130706432,
          file_time |-> [lo |-> 5, hi |-> 1]]

Records(idxs) == [k \in 1..Len(idxs) |-> Record(k, idxs[k])]

IndexSeqs == UNION {[1..m -> 0..(MaxStrings + 1)] : m \in 0..MaxRecords}

\* Record tables for a pool of n strings: any index up to n + 1 may occur;
\* the records after the first out-of-range index all point at string 0.
PlainIndexSeqs(n) ==
    {q \in IndexSeqs :
        \A k \in 1..Len(q) :
            /\ q[k] <= n + 1
            /\ (\A j \in 1..(k - 1) : q[j] < n) \/ q[k] = 0}

\* All records point at string 0, except possibly the last one.
LastIndexSeqs ==
    {q \in IndexSeqs : \A k \in 1..(Len(q) - 1) : q[k] = 0}

ZeroIndexSeqs == {q \in IndexSeqs : \A k \in 1..Len(q) : q[k] = 0}

\* A complete archive with consistent header fields.
Archive(family, strs, recs, layout) ==
    LET sl == Len(EncStrings(strs))
        rl == Len(EncRecords(recs))
    IN  [family |-> family, id |-> MAGIC, version |-> VERSION,
         strs |-> strs, recs |-> recs, layout |-> layout,
         record_table_start |-> IF layout = "SR" THEN HEADER_SIZE + sl ELSE HEADER_SIZE,
         record_table_size |-> rl,
         record_table_entry_count |-> Len(recs),
         string_table_start |-> IF layout = "SR" THEN HEADER_SIZE ELSE HEADER_SIZE + rl,
         string_table_size |-> sl,
         keep |-> HEADER_SIZE + sl + rl]

Layouts == {"SR", "RS"}

PlainArchives ==
    UNION {{Archive("plain", Pool(st, n), Records(q), l) :
                st \in 1..2, q \in PlainIndexSeqs(n), l \in Layouts} :
            n \in 0..MaxStrings}

LiteArchives(family) ==
    {Archive(family, Pool(2, n), Records(q), l) :
        n \in 0..MaxStrings, q \in ZeroIndexSeqs, l \in Layouts}

Min(x, y) == IF x < y THEN x ELSE y

\* Truncated files: the file ends inside the header, inside the count of
\* the string table, at the start of a record, right after a record's path
\* index, or 1..MaxCut bytes before its end.
FullLen(a) == HEADER_SIZE + a.string_table_size + a.record_table_size

RecordStart(a, k) == a.record_table_start + Len(EncRecords(SubSeq(a.recs, 1, k - 1)))

CutKeeps(a) ==
    {x \in {0, 3, HEADER_SIZE - 1, a.string_table_start + 2}
           \cup {FullLen(a) - d : d \in 1..MaxCut}
           \cup {RecordStart(a, k) + j : k \in 1..Len(a.recs), j \in {0, 4}} :
        x >= 0 /\ x < FullLen(a)}

CutArchives ==
    UNION {{[a EXCEPT !.keep = k] : k \in CutKeeps(a)} :
            a \in {Archive("cut", Pool(1, n), Records(q), l) :
                    n \in 0..MaxStrings, q \in LastIndexSeqs, l \in Layouts}}

\* Files of another format: id or version differ; the file may also end
\* inside the header.
MagicArchives ==
    {[a EXCEPT !.id = iv[1], !.version = iv[2], !.keep = k] :
        a \in LiteArchives("magic"),
        iv \in {<<9, 3>>, <<2, 4>>, <<3, 2>>},
        k \in {10, HEADER_SIZE, HEADER_SIZE + 4}}

\* Table offsets that point into the header or past the end of the file.
OffsetArchives ==
    LET base == LiteArchives("offset")
    IN  {[a EXCEPT !.string_table_start = o] : a \in base, o \in {8, 20, 200}}
        \cup {[a EXCEPT !.record_table_start = o] : a \in base, o \in {8, 20, 200}}

\* The header claims more records than the file holds.
CountArchives ==
    {[a EXCEPT !.record_table_entry_count = @ + x] :
        a \in LiteArchives("count"), x \in 1..MaxExtra}

Archives ==
    PlainArchives \cup CutArchives \cup MagicArchives \cup OffsetArchives
    \cup CountArchives

StreamOf(a) ==
    LET full == EncArchive(a) IN SubSeq(full, 1, Min(a.keep, Len(full)))

-----------------------------------------------------------------------------
(* The stream R: read_exact and seek on a file or an in-memory buffer.     *)

\* read_exact(n) at position p succeeds iff n more bytes are there.
CanRead(s, p, n) == p + n <= Len(s)

\* The buffer after read_exact: buffers start zeroed (vec![0; n]).
Bytes(s, p, n) == [i \in 1..n |-> IF p + i <= Len(s) THEN s[p + i] ELSE 0]

\* Where a failed read_exact leaves the stream is unspecified: it is left
\* in place or at the end of the data, depending on R.
EofPositions(s, p) == {p, Len(s)}

Event(op, stage, at, n, ok) == [op |-> op, stage |-> stage, at |-> at, n |-> n, ok |-> ok]

\* Consecutive read_exact calls of the given sizes, stopping at the first
\* that fails (the ? operator).
RECURSIVE ReadAll(_, _, _, _)
ReadAll(s, p, sizes, stage) ==
    IF sizes = <<>> THEN [ok |-> TRUE, pos |-> p, events |-> <<>>, fields |-> <<>>]
    ELSE IF ~CanRead(s, p, Head(sizes))
    THEN [ok |-> FALSE, pos |-> p,
          events |-> <<Event("read", stage, p, Head(sizes), FALSE)>>, fields |-> <<>>]
    ELSE LET r == ReadAll(s, p + Head(sizes), Tail(sizes), stage)
         IN  [ok |-> r.ok, pos |-> r.pos,
              events |-> <<Event("read", stage, p, Head(sizes), TRUE)>> \o r.events,
              fields |-> <<Bytes(s, p, Head(sizes))>> \o r.fields]

-----------------------------------------------------------------------------
(* Error and the values of the reader *)

IoError == [kind |-> "Io"]
UnsupportedFormat == [kind |-> "UnsupportedFormat"]
InvalidStringIndex(i) == [kind |-> "InvalidStringIndex", index |-> i]
\* `strings[path_index]` out of bounds: the thread panics.
Panic == [kind |-> "Panic"]
Ok(es) == [kind |-> "Ok", entries |-> es]
Pending == [kind |-> "Pending"]
None == [kind |-> "None"]

DefaultHeader ==
    [id |-> 0, version |-> 0, record_table_start |-> 0, record_table_size |-> 0,
     record_table_entry_count |-> 0, string_table_start |-> 0, string_table_size |-> 0]

DefaultEntry ==
    [path |-> <<>>, record_type |-> <<>>, offset |-> 0, compressed_size |-> 0,
     uncompressed_size |-> 0, file_time |-> [lo |-> 0, hi |-> 0]]

\* A failed read ends the loop and what was decoded so far is returned.
ReturnPartial(e, es) == Ok(es)

\* The `?` on a failed read: the function returns the converted error, and
\* whatever it had decoded so far (es) is dropped.
PropagateErr(e, es) == e

\* parse_header reads from wherever the stream is.
ParseStartKeep == pos

\* parse_header starts at offset 0.
ParseStart == 0

\* Only the magic is checked.
HeaderValidIdOnly(id, version) == ~(id /= MAGIC)
HeaderValid(id, version) == ~(id /= MAGIC \/ version /= VERSION)

ParseHeaderFields(b) ==
    [id |-> FromLE(SubSeq(b, 1, 2)), version |-> FromLE(SubSeq(b, 3, 4)),
     record_table_start |-> FromLE(SubSeq(b, 5, 8)),
     record_table_size |-> FromLE(SubSeq(b, 9, 12)),
     record_table_entry_count |-> FromLE(SubSeq(b, 13, 16)),
     string_table_start |-> FromLE(SubSeq(b, 17, 20)),
     string_table_size |-> FromLE(SubSeq(b, 21, 24))]

StringsStart(h) == h.string_table_start
EntriesStart(h) == h.record_table_start
\* The loop of read_entries driven by the wrong header field.
EntryCountBySize(h) == h.record_table_size
EntryCount(h) == h.record_table_entry_count

\* parse_header reads the record table right after the header.
AfterHeaderSkipStrings == "read_entries"

\* The stage parse_header runs after read_header, and after read_strings.
AfterHeader == "read_strings"
AfterStrings == "read_entries"

\* A pool that interns: a string already present is not pushed again.
PushStringDedup(ss, s) ==
    IF \E i \in 1..Len(ss) : ss[i] = s THEN ss ELSE Append(ss, s)
PushString(ss, s) == Append(ss, s)
PushEntry(es, e) == Append(es, e)

\* The bounds check of read_entries.
IndexRejected(path_index, pool) == path_index > Len(pool)

\* `strings[path_index]`: slice indexing panics out of bounds.
PoolGet(pool, path_index) ==
    IF path_index < Len(pool) THEN [ok |-> TRUE, value |-> pool[path_index + 1]]
    ELSE [ok |-> FALSE, value |-> <<>>]

\* The two sizes assigned the wrong way round.
EntryFieldsSwapped(e, f) ==
    [e EXCEPT !.record_type = from_utf8_lossy(f[1]),
              !.offset = FromLE(f[2]),
              !.compressed_size = FromLE(f[4]),
              !.uncompressed_size = FromLE(f[3]),
              !.file_time = FromLE64(f[5])]

EntryFields(e, f) ==
    [e EXCEPT !.record_type = from_utf8_lossy(f[1]),
              !.offset = FromLE(f[2]),
              !.compressed_size = FromLE(f[3]),
              !.uncompressed_size = FromLE(f[4]),
              !.file_time = FromLE64(f[5])]

-----------------------------------------------------------------------------
(* Reader::new *)

Init ==
    /\ archive \in Archives
    /\ stream = StreamOf(archive)
    /\ pos = 0
    /\ pc = "parse"
    /\ header = DefaultHeader
    /\ strings_count = 0
    /\ strings = <<>>
    /\ entries = <<>>
    /\ entry = DefaultEntry
    /\ indices = <<>>
    /\ trace = <<>>
    /\ stages = <<>>
    /\ result = Pending
    /\ prev = None
    /\ parses = 1
    /\ twin = FALSE

\* A stage returns Err(e): every caller propagates it with `?`.
Fail(e) ==
    /\ result' = e
    /\ pc' = "done"

\* A read failed with an I/O error at position p.
FailIo(p) ==
    /\ Fail(PropagateErr(IoError, entries))
    /\ pos' \in EofPositions(stream, p)

\* parse_header: self.reader.seek(SeekFrom::Start(0))
SeekStart ==
    /\ pc = "parse"
    /\ pos' = ParseStart
    /\ trace' = Append(trace, Event("seek", "header", ParseStart, 0, TRUE))
    /\ pc' = "read_header"
    /\ UNCHANGED <<archive, stream, header, strings_count, strings, entries, entry,
                   indices, stages, result, prev, parses, twin>>

ReadHeader ==
    /\ pc = "read_header"
    /\ stages' = Append(stages, "header")
    /\ LET r == ReadAll(stream, pos, <<HEADER_SIZE>>, "header")
       IN  /\ trace' = trace \o r.events
           /\ IF ~r.ok
              THEN FailIo(r.pos) /\ UNCHANGED header
              ELSE LET h == ParseHeaderFields(r.fields[1])
                   IN  /\ pos' = r.pos
                       /\ IF ~HeaderValid(h.id, h.version)
                          THEN Fail(UnsupportedFormat) /\ UNCHANGED header
                          ELSE /\ header' = h
                               /\ pc' = AfterHeader
                               /\ UNCHANGED result
    /\ UNCHANGED <<archive, stream, strings_count, strings, entries, entry,
                   indices, prev, parses, twin>>

\* read_strings: seek to the string table
SeekStrings ==
    /\ pc = "read_strings"
    /\ stages' = Append(stages, "strings")
    /\ pos' = StringsStart(header)
    /\ trace' = Append(trace, Event("seek", "strings", StringsStart(header), 0, TRUE))
    /\ pc' = "strings_count"
    /\ UNCHANGED <<archive, stream, header, strings_count, strings, entries, entry,
                   indices, result, prev, parses, twin>>

ReadStringsCount ==
    /\ pc = "strings_count"
    /\ LET r == ReadAll(stream, pos, <<4>>, "strings")
       IN  /\ trace' = trace \o r.events
           /\ IF ~r.ok
              THEN FailIo(r.pos) /\ UNCHANGED <<strings_count, strings>>
              ELSE /\ pos' = r.pos
                   /\ strings_count' = FromLE(r.fields[1])
                   /\ strings' = <<>>
                   /\ pc' = "strings_loop"
                   /\ UNCHANGED result
    /\ UNCHANGED <<archive, stream, header, entries, entry, indices, stages,
                   prev, parses, twin>>

\* One iteration of the loop of read_strings
ReadString ==
    /\ pc = "strings_loop"
    /\ Len(strings) < strings_count
    /\ LET r1 == ReadAll(stream, pos, <<4>>, "strings")
       IN  IF ~r1.ok
           THEN /\ trace' = trace \o r1.events
                /\ FailIo(r1.pos)
                /\ UNCHANGED strings
           ELSE LET r2 == ReadAll(stream, r1.pos, <<FromLE(r1.fields[1])>>, "strings")
                IN  /\ trace' = trace \o r1.events \o r2.events
                    /\ IF ~r2.ok
                       THEN FailIo(r2.pos) /\ UNCHANGED strings
                       ELSE /\ pos' = r2.pos
                            /\ strings' = PushString(strings, from_utf8_lossy(r2.fields[1]))
                            /\ UNCHANGED <<pc, result>>
    /\ UNCHANGED <<archive, stream, header, strings_count, entries, entry, indices,
                   stages, prev, parses, twin>>

\* read_strings returns Ok(strings)
StringsDone ==
    /\ pc = "strings_loop"
    /\ Len(strings) >= strings_count
    /\ pc' = AfterStrings
    /\ UNCHANGED <<archive, stream, pos, header, strings_count, strings, entries,
                   entry, indices, trace, stages, result, prev, parses, twin>>

\* read_entries: seek to the record table
SeekEntries ==
    /\ pc = "read_entries"
    /\ stages' = Append(stages, "entries")
    /\ pos' = EntriesStart(header)
    /\ trace' = Append(trace, Event("seek", "entries", EntriesStart(header), 0, TRUE))
    /\ entries' = <<>>
    /\ pc' = "entries_loop"
    /\ UNCHANGED <<archive, stream, header, strings_count, strings, entry,
                   indices, result, prev, parses, twin>>

\* One iteration of read_entries, up to `entry.path = strings[path_index]`
ReadPathIndex ==
    /\ pc = "entries_loop"
    /\ Len(entries) < EntryCount(header)
    /\ LET r == ReadAll(stream, pos, <<4>>, "entries")
       IN  /\ trace' = trace \o r.events
           /\ IF ~r.ok
              THEN FailIo(r.pos) /\ UNCHANGED <<entry, indices>>
              ELSE LET path_index == FromLE(r.fields[1])
                   IN  /\ pos' = r.pos
                       /\ indices' = Append(indices, path_index)
                       /\ IF IndexRejected(path_index, strings)
                          THEN Fail(InvalidStringIndex(path_index)) /\ UNCHANGED entry
                          ELSE IF ~PoolGet(strings, path_index).ok
                          THEN Fail(Panic) /\ UNCHANGED entry
                          ELSE /\ entry' = [DefaultEntry EXCEPT
                                                !.path = PoolGet(strings, path_index).value]
                               /\ pc' = "entry_rest"
                               /\ UNCHANGED result
    /\ UNCHANGED <<archive, stream, header, strings_count, strings, entries, stages,
                   prev, parses, twin>>

\* The rest of the iteration: record type, offset, sizes, file time, push
ReadEntryRest ==
    /\ pc = "entry_rest"
    /\ LET r1 == ReadAll(stream, pos, <<4>>, "entries")
       IN  IF ~r1.ok
           THEN /\ trace' = trace \o r1.events
                /\ FailIo(r1.pos)
                /\ UNCHANGED <<entry, entries>>
           ELSE LET r2 == ReadAll(stream, r1.pos, <<FromLE(r1.fields[1]), 4, 4, 4, 8>>,
                                  "entries")
                IN  /\ trace' = trace \o r1.events \o r2.events
                    /\ IF ~r2.ok
                       THEN FailIo(r2.pos) /\ UNCHANGED <<entry, entries>>
                       ELSE /\ pos' = r2.pos
                            /\ entry' = EntryFields(entry, r2.fields)
                            /\ entries' = PushEntry(entries, EntryFields(entry, r2.fields))
                            /\ pc' = "entries_loop"
                            /\ UNCHANGED result
    /\ UNCHANGED <<archive, stream, header, strings_count, strings, indices, stages,
                   prev, parses, twin>>

\* read_entries returns Ok(entries); new stores them and returns Ok(rdr)
Return ==
    /\ pc = "entries_loop"
    /\ Len(entries) >= EntryCount(header)
    /\ result' = Ok(entries)
    /\ pc' = "done"
    /\ UNCHANGED <<archive, stream, pos, header, strings_count, strings, entries,
                   entry, indices, trace, stages, prev, parses, twin>>

\* The caller's next Reader::new starts from a fresh Reader.
Fresh ==
    /\ pc' = "parse"
    /\ header' = DefaultHeader
    /\ strings_count' = 0
    /\ strings' = <<>>
    /\ entries' = <<>>
    /\ entry' = DefaultEntry
    /\ indices' = <<>>
    /\ trace' = <<>>
    /\ stages' = <<>>
    /\ result' = Pending
    /\ prev' = result
    /\ parses' = parses + 1

\* The caller parses the same stream again, from wherever it was left.
Reparse ==
    /\ pc = "done"
    /\ parses < MaxParses
    /\ Fresh
    /\ twin' = FALSE
    /\ UNCHANGED <<archive, stream, pos>>

\* Bytes 8..11 and 20..23 of the header replaced by the u32 values rs and ss.
PatchSizes(s, rs, ss) ==
    [i \in 1..Len(s) |->
        IF i \in 9..12 THEN LE(rs, 4)[i - 8]
        ELSE IF i \in 21..24 THEN LE(ss, 4)[i - 20]
        ELSE s[i]]

\* The caller parses an archive that differs from the one just parsed only
\* in record_table_size and string_table_size (a twin is not patched again).
ReparseTwin ==
    /\ pc = "done"
    /\ parses < MaxParses
    /\ ~twin
    /\ \E v \in 0..MaxSizeField :
        /\ PatchSizes(stream, v, v) /= stream
        /\ stream' = PatchSizes(stream, v, v)
        /\ archive' = [archive EXCEPT !.record_table_size = v, !.string_table_size = v]
    /\ Fresh
    /\ twin' = TRUE
    /\ UNCHANGED pos

Next ==
    \/ SeekStart
    \/ ReadHeader
    \/ SeekStrings
    \/ ReadStringsCount
    \/ ReadString
    \/ StringsDone
    \/ SeekEntries
    \/ ReadPathIndex
    \/ ReadEntryRest
    \/ Return
    \/ Reparse
    \/ ReparseTwin

Spec == Init /\ [][Next]_vars

-----------------------------------------------------------------------------
(* Properties *)

Last(q) == q[Len(q)]

Finished == pc = "done"

\* The pool and the record list the archive describes.
ExpectedPool == [i \in 1..Len(archive.strs) |-> from_utf8_lossy(archive.strs[i])]

ExpectedEntry(r) ==
    [path |-> from_utf8_lossy(archive.strs[r.path_index + 1]),
     record_type |-> from_utf8_lossy(r.record_type),
     offset |-> r.offset, compressed_size |-> r.compressed_size,
     uncompressed_size |-> r.uncompressed_size, file_time |-> r.file_time]

IndicesInRange == \A k \in 1..Len(archive.recs) : archive.recs[k].path_index < Len(archive.strs)

WellFormed == archive.family = "plain" /\ IndicesInRange

\* C1: a record whose path index is >= the pool length (the boundary value
\* included) makes Reader::new fail with InvalidStringIndex carrying that
\* index.
C1_DanglingIndexRejected ==
    (Finished /\ indices /= <<>> /\ Last(indices) >= Len(strings))
        => result = InvalidStringIndex(Last(indices))

\* C2: Reader::new ends with a Reader holding the complete record table or
\* with one of the typed failures, and with nothing else.
C2_TypedOutcomeOnly ==
    Finished =>
        \/ result.kind \in {"UnsupportedFormat", "InvalidStringIndex", "Io"}
        \/ result.kind = "Ok" /\ Len(result.entries) = header.record_table_entry_count

\* C3: once read_header has decoded an id/version pair other than (2,3),
\* the call has failed with UnsupportedFormat, the stream is at offset 24 and
\* the seek to 0 and the header read are the only stream operations.
C3_FormatMismatchStopsAtHeader ==
    (/\ Len(trace) >= 2
     /\ trace[2].ok
     /\ <<archive.id, archive.version>> /= <<2, 3>>)
        => /\ Finished
           /\ result = UnsupportedFormat
           /\ pos = 24
           /\ trace = <<Event("seek", "header", 0, 0, TRUE),
                        Event("read", "header", 0, 24, TRUE)>>
           /\ stages = <<"header">>

C3_Witness ==
    /\ Finished
    /\ result = UnsupportedFormat
    /\ archive.id = 2 /\ archive.version = 4
    /\ Len(stream) > 24
    /\ pos = 24

\* C4: a well-formed archive with M records decodes to exactly M entries in
\* table order, each with its record's fields and the pool string at its
\* path index.
C4_EntriesMatchRecords ==
    (Finished /\ WellFormed)
        => result = Ok([k \in 1..Len(archive.recs) |-> ExpectedEntry(archive.recs[k])])

C4_Witness ==
    /\ Finished /\ WellFormed
    /\ result.kind = "Ok"
    /\ Len(result.entries) = 2
    /\ result.entries[1].path /= result.entries[2].path
    /\ archive.layout = "RS"

\* C5: for an archive with an intact string table of N entries, the pool
\* read_strings builds holds the i-th on-disk string at position i, has
\* exactly N elements when read_strings returns, and read_strings does return.
C5_PoolMatchesTable ==
    archive.family \in {"plain", "count"}
        => /\ pc \in {"strings_loop", "read_entries", "entries_loop", "entry_rest", "done"}
                => /\ Len(strings) <= Len(archive.strs)
                   /\ \A i \in 1..Len(strings) : strings[i] = ExpectedPool[i]
           /\ pc \in {"read_entries", "entries_loop", "entry_rest", "done"}
                => strings = ExpectedPool
           /\ Finished => "entries" \in {stages[i] : i \in 1..Len(stages)}

C5_Witness ==
    /\ pc = "read_entries"
    /\ archive.family = "plain"
    /\ Len(strings) = 2
    /\ strings[1] = strings[2]

\* C6: when the file ends before the header, the string table or the
\* declared records are complete, and every path index read is in range,
\* Reader::new fails with Io and returns no records.
C6_TruncatedIsIo ==
    (/\ Finished
     /\ archive.family \in {"cut", "count"}
     /\ \A i \in 1..Len(indices) : indices[i] < Len(strings))
        => result = IoError

\* Five records declared, the file ends after two.
C6_Witness ==
    /\ Finished
    /\ archive.family = "count"
    /\ archive.record_table_entry_count = 5
    /\ Len(entries) = 2
    /\ result = IoError

\* C7: a second Reader::new on the same stream returns what the first one
\* returned, wherever the first one left the stream.
C7_Idempotent ==
    (Finished /\ parses >= 2 /\ ~twin) => result = prev

C7_Witness ==
    /\ Finished /\ parses = 2 /\ ~twin
    /\ result.kind = "Ok"
    /\ Len(result.entries) = 2
    /\ prev = result

StageOrder ==
    /\ stages \in {<<>>, <<"header">>, <<"header", "strings">>,
                   <<"header", "strings", "entries">>}
    /\ Len(stages) >= 2 =>
          /\ Len(trace) >= 2 /\ trace[2] = Event("read", "header", 0, 24, TRUE)
          /\ FromLE(SubSeq(stream, 1, 2)) = 2 /\ FromLE(SubSeq(stream, 3, 4)) = 3
    /\ Len(stages) >= 3 => Len(strings) = strings_count

\* C8: the stages run in the order header, strings, entries, each at most
\* once; strings only after a valid header, entries only after the pool is
\* complete; once the call has returned nothing more is read.
C8_StagesInOrder ==
    [][/\ StageOrder'
       /\ Finished => (parses' = parses + 1 /\ stages' = <<>> /\ trace' = <<>>)]_vars

C8_Witness ==
    /\ Finished
    /\ stages = <<"header", "strings", "entries">>
    /\ result.kind = "Ok"
    /\ Len(strings) = 2 /\ Len(entries) = 2

\* C9: an out-of-range path index is rejected with InvalidStringIndex right
\* after its four bytes are read: that read is the call's last stream
\* operation, also when the file ends right after the index.
C9_IndexCheckedFirst ==
    (Finished /\ indices /= <<>> /\ Last(indices) >= Len(strings))
        => /\ result.kind = "InvalidStringIndex"
           /\ result.index = Last(indices)
           /\ Last(trace) = Event("read", "entries", pos - 4, 4, TRUE)

\* C10 (as stated): an archive that differs only in record_table_size and
\* string_table_size gives the same result.
C10_SizesNeverInfluence ==
    (Finished /\ twin) => result = prev

\* C10 (amended): the same, for archives whose two tables start at or after
\* offset 24.
C10_SizesIgnoredOutsideHeader ==
    (/\ Finished /\ twin
     /\ archive.string_table_start >= HEADER_SIZE
     /\ archive.record_table_start >= HEADER_SIZE)
        => result = prev

C10_Witness ==
    /\ Finished /\ twin
    /\ archive.string_table_start >= HEADER_SIZE
    /\ archive.record_table_start >= HEADER_SIZE
    /\ result.kind = "Ok"
    /\ Len(result.entries) = 2

====
